---- MODULE Spec2Model ----
(***************************************************************************)
(* apt-downgrade: dependency resolution for downgrading a Debian package.  *)
(*                                                                         *)
(* The module models                                                       *)
(*   - the version order and the data types of src/src/apt.rs,             *)
(*   - the selector resolve_dependency of src/src/apt.rs (SelSpec),        *)
(*   - the worklist loop of main() in src/src/main.rs together with the    *)
(*     functions of main.rs it calls (Spec),                               *)
(*   - the artifact cache download_package of src/src/apt.rs (DlSpec),     *)
(*   - the listing-page memo of get_remote_package_versions (IdxSpec).     *)
(*   - build_install_cmdline of apt.rs and of main.rs (CmdSpec),           *)
(*   - one call of main.rs resolve_version with its candidates (CandSpec), *)
(*   - the parsing of a listing page by get_remote_package_versions        *)
(*     (LsSpec),                                                           *)
(*   - the parsing of a Depends line by get_dependencies of apt.rs and by  *)
(*     get_dependencies_cache of main.rs (DepSpec),                        *)
(*   - two interleaved calls of download_package for one URL (ConcSpec).   *)
(*                                                                         *)
(* Strings are sequences of one-character strings, so that string         *)
(* equality and the version order are two different things, as they are    *)
(* in the program.  Option<T> is a sequence of length at most one.         *)
(***************************************************************************)
EXTENDS Integers, Sequences, FiniteSets, TLC

None == <<>>
Some(x) == <<x>>
IsSome(o) == o # <<>>
Unwrap(o) == o[1]

Range(s) == {s[i] : i \in 1..Len(s)}

(***************************************************************************)
(* Version strings and their order (impl Ord for PackageVersion, which     *)
(* delegates to deb_version::compare_versions; derive(PartialEq) is plain  *)
(* string equality).                                                       *)
(***************************************************************************)
Digits == {"0", "1", "2", "3", "4", "5", "6", "7", "8", "9"}
Letters == {"e", "n", "o"}

IsDigit(c) == c \in Digits

DigitVal(c) ==
    CASE c = "0" -> 0 [] c = "1" -> 1 [] c = "2" -> 2 [] c = "3" -> 3
      [] c = "4" -> 4 [] c = "5" -> 5 [] c = "6" -> 6 [] c = "7" -> 7
      [] c = "8" -> 8 [] c = "9" -> 9

\* ASCII code of the characters that occur in the modelled strings.
Code(c) ==
    CASE c = "(" -> 40 [] c = ")" -> 41 [] c = "-" -> 45 [] c = "." -> 46
      [] c = ":" -> 58 [] c = "_" -> 95 [] c = "e" -> 101 [] c = "n" -> 110 [] c = "o" -> 111
      [] c = "~" -> 126 [] OTHER -> 48 + DigitVal(c)

\* Weight of a character inside a non-digit run; the end of the string and
\* a digit weigh 0, '~' sorts before the end, letters before the rest.
Order(c) ==
    IF IsDigit(c) THEN 0
    ELSE IF c \in Letters THEN Code(c)
    ELSE IF c = "~" THEN 0 - 1
    ELSE Code(c) + 256

Sign(n) == IF n < 0 THEN 0 - 1 ELSE IF n > 0 THEN 1 ELSE 0

RECURSIVE NonDigitLen(_)
NonDigitLen(s) ==
    IF s = <<>> \/ IsDigit(Head(s)) THEN 0 ELSE 1 + NonDigitLen(Tail(s))

RECURSIVE DigitLen(_)
DigitLen(s) ==
    IF s = <<>> \/ ~IsDigit(Head(s)) THEN 0 ELSE 1 + DigitLen(Tail(s))

RECURSIVE StripZeros(_)
StripZeros(s) ==
    IF s # <<>> /\ Head(s) = "0" THEN StripZeros(Tail(s)) ELSE s

\* Compares two non-digit runs character by character.
RECURSIVE CmpNonDigit(_, _)
CmpNonDigit(a, b) ==
    IF a = <<>> /\ b = <<>> THEN 0
    ELSE LET ac == IF a = <<>> THEN 0 ELSE Order(Head(a))
             bc == IF b = <<>> THEN 0 ELSE Order(Head(b))
         IN  IF ac # bc THEN Sign(ac - bc)
             ELSE CmpNonDigit(Tail(a), Tail(b))

\* Compares two digit runs of equal length, most significant digit first.
RECURSIVE CmpDigitsSameLen(_, _)
CmpDigitsSameLen(a, b) ==
    IF a = <<>> THEN 0
    ELSE IF Head(a) # Head(b) THEN Sign(DigitVal(Head(a)) - DigitVal(Head(b)))
    ELSE CmpDigitsSameLen(Tail(a), Tail(b))

\* Compares two digit runs as integers: leading zeros are ignored.
CmpDigits(a, b) ==
    LET x == StripZeros(a)
        y == StripZeros(b)
    IN  IF Len(x) # Len(y) THEN Sign(Len(x) - Len(y))
        ELSE CmpDigitsSameLen(x, y)

\* Alternates non-digit and digit runs until both strings are exhausted.
RECURSIVE CmpRuns(_, _)
CmpRuns(a, b) ==
    IF a = <<>> /\ b = <<>> THEN 0
    ELSE LET na == NonDigitLen(a)
             nb == NonDigitLen(b)
             r1 == CmpNonDigit(SubSeq(a, 1, na), SubSeq(b, 1, nb))
             a2 == SubSeq(a, na + 1, Len(a))
             b2 == SubSeq(b, nb + 1, Len(b))
             da == DigitLen(a2)
             db == DigitLen(b2)
             r2 == CmpDigits(SubSeq(a2, 1, da), SubSeq(b2, 1, db))
         IN  IF r1 # 0 THEN r1
             ELSE IF r2 # 0 THEN r2
             ELSE CmpRuns(SubSeq(a2, da + 1, Len(a2)), SubSeq(b2, db + 1, Len(b2)))

\* Position of the first / last occurrence of c in s, 0 when absent.
RECURSIVE FirstIndex(_, _, _)
FirstIndex(s, c, i) ==
    IF i > Len(s) THEN 0 ELSE IF s[i] = c THEN i ELSE FirstIndex(s, c, i + 1)

RECURSIVE LastIndex(_, _, _)
LastIndex(s, c, i) ==
    IF i = 0 THEN 0 ELSE IF s[i] = c THEN i ELSE LastIndex(s, c, i - 1)

Epoch(s) ==
    LET i == FirstIndex(s, ":", 1) IN IF i = 0 THEN <<"0">> ELSE SubSeq(s, 1, i - 1)

NoEpoch(s) ==
    LET i == FirstIndex(s, ":", 1) IN IF i = 0 THEN s ELSE SubSeq(s, i + 1, Len(s))

Upstream(s) ==
    LET i == LastIndex(s, "-", Len(s)) IN IF i = 0 THEN s ELSE SubSeq(s, 1, i - 1)

Revision(s) ==
    LET i == LastIndex(s, "-", Len(s)) IN IF i = 0 THEN <<>> ELSE SubSeq(s, i + 1, Len(s))

\* -1, 0, 1 for Ordering::Less, Equal, Greater.
compare_versions(a, b) ==
    LET e == CmpDigits(Epoch(a), Epoch(b))
        u == CmpRuns(Upstream(NoEpoch(a)), Upstream(NoEpoch(b)))
        r == CmpRuns(Revision(NoEpoch(a)), Revision(NoEpoch(b)))
    IN  IF e # 0 THEN e ELSE IF u # 0 THEN u ELSE r

\* The version strings of the model.  V9 and V09 are equal in the version
\* order and differ as strings; V10 is the greatest in the version order and
\* the first in the lexicographic order of file names.
V9 == <<"9">>
V09 == <<"0", "9">>
V10 == <<"1", "0">>
VNone == <<"(", "n", "o", "n", "e", ")">>
VEmpty == <<>>

Versions == {V9, V09, V10}


(***************************************************************************)
(* Data types of apt.rs.                                                   *)
(***************************************************************************)
Relations ==
    {"Any", "StrictlyInferior", "InferiorOrEqual", "Equal", "SuperiorOrEqual",
     "StriclySuperior"}

\* struct PackageVersionConstaint
PackageVersionConstaint(relation, version) ==
    [version |-> version, version_relation |-> relation]

\* struct PackageDependency
PackageDependency(name, constraints) ==
    [package_name |-> name, version_constraints |-> constraints]

\* struct Package; derive(PartialEq) compares all five fields.
Package(name, version, arch, filepath, url) ==
    [name |-> name, version |-> version, arch |-> arch, filepath |-> filepath,
     url |-> url]

\* "<name>_<version>_<arch>.deb"
DebFileName(name, version, arch) == <<name, "_", version, "_", arch, ".deb">>

\* A package as get_cache_package_versions builds it from a file of the
\* apt cache directory.
CachePackage(name, version, arch) ==
    Package(name, version, Some(arch),
            Some(<<"cache_dir">> \o DebFileName(name, version, arch)), None)

\* A package as get_remote_package_versions builds it from a listed file.
RemotePackage(name, version, arch) ==
    Package(name, version, Some(arch), None,
            Some(<<"index_url">> \o DebFileName(name, version, arch)))

\* A package as apt.rs get_installed_version builds it: the version comes
\* from the policy report, the file name from the first record of the show
\* report, which describes the version file_version.
InstalledPackage(name, version, arch, file_version) ==
    Package(name, version, Some(arch),
            Some(<<"cache_dir">> \o DebFileName(name, file_version, arch)), None)

(***************************************************************************)
(* The selector, apt.rs resolve_dependency.                                *)
(***************************************************************************)
VersionLt(a, b) == compare_versions(a, b) < 0
VersionLe(a, b) == compare_versions(a, b) <= 0
VersionGe(a, b) == compare_versions(a, b) >= 0
VersionGt(a, b) == compare_versions(a, b) > 0
\* PackageVersion derives PartialEq: == compares the strings.
VersionEq(a, b) == a = b

filter_predicate_mutant(constraint, p) ==
    CASE constraint.version_relation = "Any" -> TRUE
      [] constraint.version_relation = "StrictlyInferior" ->
            VersionLe(p.version, constraint.version)
      [] constraint.version_relation = "InferiorOrEqual" ->
            VersionLe(p.version, constraint.version)
      [] constraint.version_relation = "Equal" ->
            VersionEq(p.version, constraint.version)
      [] constraint.version_relation = "SuperiorOrEqual" ->
            VersionGe(p.version, constraint.version)
      [] constraint.version_relation = "StriclySuperior" ->
            VersionGt(p.version, constraint.version)

filter_predicate(constraint, p) ==
    CASE constraint.version_relation = "Any" -> TRUE
      [] constraint.version_relation = "StrictlyInferior" ->
            VersionLt(p.version, constraint.version)
      [] constraint.version_relation = "InferiorOrEqual" ->
            VersionLe(p.version, constraint.version)
      [] constraint.version_relation = "Equal" ->
            VersionEq(p.version, constraint.version)
      [] constraint.version_relation = "SuperiorOrEqual" ->
            VersionGe(p.version, constraint.version)
      [] constraint.version_relation = "StriclySuperior" ->
            VersionGt(p.version, constraint.version)

\* Iterator::filter with the predicate of one constraint.
RECURSIVE FilterCandidates(_, _)
FilterCandidates(cands, constraint) ==
    IF cands = <<>> THEN <<>>
    ELSE IF filter_predicate(constraint, Head(cands))
         THEN <<Head(cands)>> \o FilterCandidates(Tail(cands), constraint)
         ELSE FilterCandidates(Tail(cands), constraint)

\* The loop over dependency.version_constraints: one filter per constraint.
RECURSIVE matching_candidates(_, _)
matching_candidates(cands, constraints) ==
    IF constraints = <<>> THEN cands
    ELSE matching_candidates(FilterCandidates(cands, Head(constraints)),
                             Tail(constraints))

resolve_dependency(dependency, cands, installed_package) ==
    LET matching == matching_candidates(cands, dependency.version_constraints)
    IN  IF IsSome(installed_package) /\ Unwrap(installed_package) \in Range(matching)
        THEN installed_package
        ELSE IF matching = <<>> THEN None ELSE Some(matching[1])


(***************************************************************************)
(* The functions of main.rs that the worklist loop calls.  main.rs has its *)
(* own Package {name, version} and PackageDependency {package,             *)
(* version_relation}.                                                      *)
(***************************************************************************)
MainPackage(name, version) == [name |-> name, version |-> version]

MainDependency(name, version, relation) ==
    [package |-> MainPackage(name, version), version_relation |-> relation]

\* Byte-wise order of two strings, as the glob crate sorts paths.
RECURSIVE LexLess(_, _)
LexLess(a, b) ==
    IF b = <<>> THEN FALSE
    ELSE IF a = <<>> THEN TRUE
    ELSE IF Head(a) # Head(b) THEN Code(Head(a)) < Code(Head(b))
    ELSE LexLess(Tail(a), Tail(b))

\* The versions in S in the order in which glob yields the files
\* "<name>_<version>_amd64.deb".
RECURSIVE GlobOrder(_)
GlobOrder(S) ==
    IF S = {} THEN <<>>
    ELSE LET m == CHOOSE x \in S :
                    \A y \in S \ {x} : LexLess(x \o <<"_">>, y \o <<"_">>)
         IN  <<m>> \o GlobOrder(S \ {m})

\* main.rs get_cache_package_versions: one version per matching file of
\* /var/cache/apt/archives, in glob order.
get_cache_package_versions(archives) == GlobOrder(archives)

\* The comparison that resolve_version makes for each relation other than
\* Any: <, <=, ==, >=, > of PackageVersion.
VersionTest(rel, v, dv) ==
    CASE rel = "StrictlyInferior" -> VersionLt(v, dv)
      [] rel = "InferiorOrEqual" -> VersionLe(v, dv)
      [] rel = "Equal" -> VersionEq(v, dv)
      [] rel = "SuperiorOrEqual" -> VersionGe(v, dv)
      [] rel = "StriclySuperior" -> VersionGt(v, dv)

\* version_candidates.iter().find(..): the first candidate passing the test.
RECURSIVE FindVersion(_, _, _)
FindVersion(version_candidates, rel, dv) ==
    IF version_candidates = <<>> THEN None
    ELSE IF VersionTest(rel, Head(version_candidates), dv)
         THEN Some(Head(version_candidates))
         ELSE FindVersion(Tail(version_candidates), rel, dv)

\* main.rs resolve_version.
resolve_version_mutant(dependency, installed_version, version_candidates) ==
    LET dv == dependency.package.version
        rel == dependency.version_relation
    IN  IF rel = "Any"
        THEN IF IsSome(installed_version) THEN installed_version
             ELSE IF version_candidates = <<>> THEN None
             ELSE Some(version_candidates[1])
        ELSE IF rel = "Equal"
        THEN IF version_candidates = <<>> THEN None ELSE Some(version_candidates[1])
        ELSE IF IsSome(installed_version) /\ VersionTest(rel, Unwrap(installed_version), dv)
        THEN installed_version
        ELSE FindVersion(version_candidates, rel, dv)

resolve_version(dependency, installed_version, version_candidates) ==
    LET dv == dependency.package.version
        rel == dependency.version_relation
    IN  IF rel = "Any"
        THEN IF IsSome(installed_version) THEN installed_version
             ELSE IF version_candidates = <<>> THEN None
             ELSE Some(version_candidates[1])
        ELSE IF rel = "Equal"
        THEN FindVersion(version_candidates, rel, dv)
        ELSE IF IsSome(installed_version) /\ VersionTest(rel, Unwrap(installed_version), dv)
        THEN installed_version
        ELSE FindVersion(version_candidates, rel, dv)

\* main.rs get_installed_version.  host describes the package on the host:
\* policy_ok (apt-cache policy exits with 0), known (the report has an
\* "Installed:" line) and installed (the version installed, if any).  The
\* line of a package that is not installed reads "Installed: (none)".
get_installed_version(host) ==
    IF ~host.policy_ok THEN None
    ELSE IF ~host.known THEN None
    ELSE IF IsSome(host.installed) THEN host.installed
    ELSE Some(VNone)

(***************************************************************************)
(* State.                                                                  *)
(***************************************************************************)
VARIABLES
    sel,        \* one call of resolve_dependency: its arguments and its result
    to_resolve, \* main: the queue of dependencies still to resolve
    to_install, \* main: the packages to install, in the order they were added
    progress,   \* main: the number of dependencies analysed
    pc,         \* main: "loop", "deps" (in get_dependencies), "done", or a panic
    output,     \* main: what the program has printed after the loop
    host,       \* per package name, the answers of the host once queried
    show,       \* per package, the outcome of apt-cache show once queried
    dl,         \* download_package: the calls made and the position in the call
    fs,         \* the files of the user cache directory: chunks held, if present
    idx,        \* get_remote_package_versions: html_cache, GETs issued, last call
    fn,         \* one call of a function checked on its own: arguments and result
    cl_args,    \* main: the package name and version of the command line
    depth       \* main: for each entry of to_resolve (q) and of to_install (i), the
                \* number of dependency links from the request that led to it

vars == <<sel, to_resolve, to_install, progress, pc, output, host, show, dl, fs, idx, fn,
         cl_args, depth>>
mainVars == <<to_resolve, to_install, progress, pc, output, host, show, cl_args, depth>>

(***************************************************************************)
(* The host of a worklist run.  What the host answers about a package name *)
(* or a package is fixed when main first asks and stays the same for the   *)
(* rest of the run.                                                        *)
(***************************************************************************)
WNames == {"a", "b", "c", "d"}
\* In the order of glob the file of V09 comes before the file of V10.
WVersions == {V09, V10}
WPackages == {MainPackage(n, v) : n \in WNames, v \in WVersions}

\* The cap on the progress counter; the loop never reaches it (ProgressBelowCap).
MaxProgress == 12

\* The request of the command line: package "a" at some version.
RequestName == "a"

\* policy_ok: apt-cache policy exits with 0; known: its report has an
\* "Installed:" line; installed: the version installed; archives: the
\* versions with a file <name>_<version>_amd64.deb in /var/cache/apt/archives
\* (none, or all of them).  A failing policy query is modelled for a package
\* that is installed at V10.
HostStates ==
    {h \in [policy_ok : BOOLEAN, known : BOOLEAN,
            installed : {None} \cup {Some(v) : v \in WVersions},
            archives : {{}, WVersions}] :
        /\ IsSome(h.installed) => h.known
        /\ ~h.policy_ok => (h.known /\ h.installed = Some(V10))}

\* The names a package of a given name may depend on.
DependsOn ==
    [n \in WNames |->
        CASE n = "a" -> <<"b", "c">>
          [] n = "b" -> <<"d">>
          [] n = "c" -> <<"d">>
          [] n = "d" -> <<"a">>]

\* The version clauses of a Depends line: none, "(>= 10)", "(= 9)".
DepClauses ==
    {<<"Any", VEmpty>>, <<"SuperiorOrEqual", V10>>, <<"Equal", V9>>}

\* The dependency lists of a package of name n: a clause on some or all of
\* the names of DependsOn[n], in that order.
RECURSIVE DepListsOver(_)
DepListsOver(names) ==
    IF names = <<>> THEN {<<>>}
    ELSE LET rest == DepListsOver(Tail(names))
         IN  rest \cup {<<MainDependency(Head(names), c[2], c[1])>> \o r :
                            c \in DepClauses, r \in rest}

\* The outcomes of apt-cache show for a package: the command fails, its
\* output has no "Depends: " line, or the line parses to a list of
\* dependencies (split(',') yields at least one clause).
ShowOutcomes(n) ==
    {[status |-> "fail", deps |-> <<>>], [status |-> "nodepends", deps |-> <<>>]}
        \cup {[status |-> "ok", deps |-> ds] : ds \in DepListsOver(DependsOn[n]) \ {<<>>}}

\* The state of a part of the program that a specification does not run.
SelIdle == [pc |-> "idle"]
DlIdle == [pc |-> "unused"]
FsIdle == <<>>
IdxIdle == [pc |-> "unused"]
FnIdle == [pc |-> "unused"]

MainIdle ==
    /\ cl_args = None
    /\ depth = [q |-> <<>>, i |-> <<>>]
    /\ to_resolve = <<>>
    /\ to_install = <<>>
    /\ progress = 0
    /\ pc = "idle"
    /\ output = None
    /\ host = [n \in WNames |-> None]
    /\ show = [p \in WPackages |-> None]

(***************************************************************************)
(* Spec: main() of main.rs.                                                *)
(***************************************************************************)
\* main.rs build_install_cmdline.
main_build_install_cmdline(packages) ==
    <<"apt-get", "install", "-V", "--no-install-recommends">>
        \o [i \in 1..Len(packages) |->
                <<"/var/cache/apt/archives/">>
                    \o DebFileName(packages[i].name, packages[i].version, "amd64")]

\* Lines 370-379: the queue holds the request, the install list is empty.
Init ==
    /\ sel = SelIdle /\ fn = FnIdle
    /\ dl = DlIdle /\ fs = FsIdle /\ idx = IdxIdle
    /\ \E v \in WVersions : cl_args = [package_name |-> RequestName, package_version |-> v]
    /\ to_resolve = <<MainDependency(cl_args.package_name, cl_args.package_version, "Equal")>>
    /\ depth = [q |-> <<0>>, i |-> <<>>]
    /\ to_install = <<>>
    /\ progress = 0
    /\ pc = "loop"
    /\ output = None
    /\ host = [n \in WNames |-> None]
    /\ show = [p \in WPackages |-> None]

\* The host answers for name n: the answer already given, or any answer.
HostAnswers(n) == IF IsSome(host[n]) THEN {Unwrap(host[n])} ELSE HostStates

ShowAnswers(p) ==
    IF p \notin WPackages THEN {[status |-> "fail", deps |-> <<>>]}
    ELSE IF IsSome(show[p]) THEN {Unwrap(show[p])}
    ELSE ShowOutcomes(p.name)

\* to_install.contains(&package)
AlreadyQueued_mutant(queue, package) == FALSE

AlreadyQueued(queue, package) == package \in Range(queue)

\* VecDeque::pop_front: the queue without its front element.
pop_front_mutant(queue) == queue

pop_back_mutant(queue) == SubSeq(queue, 1, Len(queue) - 1)

pop_front(queue) == Tail(queue)

\* What an iteration does with the resolved version, lines 389-413:
\* "panic" (unwrap_or_else), "skip" (continue) or "push".
Decide_mutant(resolved_version, installed_version, name, queue) ==
    IF resolved_version = None THEN "skip"
    ELSE IF AlreadyQueued(queue, MainPackage(name, Unwrap(resolved_version)))
    THEN "skip"
    ELSE IF IsSome(installed_version)
            /\ VersionEq(Unwrap(installed_version), Unwrap(resolved_version))
    THEN "skip"
    ELSE "push"

Decide(resolved_version, installed_version, name, queue) ==
    IF resolved_version = None THEN "panic"
    ELSE IF AlreadyQueued(queue, MainPackage(name, Unwrap(resolved_version)))
    THEN "skip"
    ELSE IF IsSome(installed_version)
            /\ VersionEq(Unwrap(installed_version), Unwrap(resolved_version))
    THEN "skip"
    ELSE "push"

\* The version main resolves for a dependency on a host that answers h.
Resolved(dependency, h) ==
    resolve_version(dependency, get_installed_version(h),
                    get_cache_package_versions(h.archives))

\* One iteration of the while loop, lines 386-413: pop the front dependency,
\* resolve it, and skip it or add the resolved package to to_install.
Iterate ==
    /\ pc = "loop"
    /\ to_resolve # <<>>
    /\ progress < MaxProgress
    /\ LET dependency == Head(to_resolve)
           name == dependency.package.name
       IN  \E h \in HostAnswers(name) :
             LET installed_version == get_installed_version(h)
                 resolved_version == Resolved(dependency, h)
                 decision == Decide(resolved_version, installed_version, name, to_install)
             IN  /\ host' = [host EXCEPT ![name] = Some(h)]
                 /\ to_resolve' = pop_front(to_resolve)
                 /\ progress' = IF decision = "panic" THEN progress ELSE progress + 1
                 /\ pc' = CASE decision = "panic" -> "panic_unresolved"
                            [] decision = "skip" -> "loop"
                            [] decision = "push" -> "deps"
                 /\ to_install' =
                        IF decision = "push"
                        THEN Append(to_install, MainPackage(name, Unwrap(resolved_version)))
                        ELSE to_install
                 /\ depth' = [q |-> pop_front(depth.q),
                              i |-> IF decision = "push"
                                    THEN Append(depth.i, Head(depth.q)) ELSE depth.i]
    /\ UNCHANGED <<sel, output, show, dl, fs, idx, fn, cl_args>>

\* Lines 415-417 with get_dependencies (229-240): the dependencies of the
\* package just added go to the back of the queue.  When apt-cache show
\* fails, get_dependencies_remote is unimplemented!(); when its output has
\* no "Depends: " line, nth(0).unwrap() panics.
GetDependencies_mutant ==
    /\ pc = "deps"
    /\ LET package == to_install[Len(to_install)]
       IN  \E o \in ShowAnswers(package) :
             /\ show' = IF package \in WPackages
                        THEN [show EXCEPT ![package] = Some(o)] ELSE show
             /\ IF o.status = "ok"
                THEN /\ to_resolve' = to_resolve \o o.deps
                     /\ depth' = [depth EXCEPT !.q = depth.q \o [k \in 1..Len(o.deps) |->
                                                        depth.i[Len(depth.i)] + 1]]
                     /\ pc' = "loop"
                ELSE /\ pc' = "loop"
                     /\ UNCHANGED <<to_resolve, depth>>
    /\ UNCHANGED <<sel, to_install, progress, output, host, dl, fs, idx, fn, cl_args>>

GetDependencies ==
    /\ pc = "deps"
    /\ LET package == to_install[Len(to_install)]
       IN  \E o \in ShowAnswers(package) :
             /\ show' = IF package \in WPackages
                        THEN [show EXCEPT ![package] = Some(o)] ELSE show
             /\ IF o.status = "ok"
                THEN /\ to_resolve' = to_resolve \o o.deps
                     /\ depth' = [depth EXCEPT !.q = depth.q \o [k \in 1..Len(o.deps) |->
                                                        depth.i[Len(depth.i)] + 1]]
                     /\ pc' = "loop"
                ELSE /\ pc' = "panic_deps"
                     /\ UNCHANGED <<to_resolve, depth>>
    /\ UNCHANGED <<sel, to_install, progress, output, host, dl, fs, idx, fn, cl_args>>

\* Lines 421-431, after the loop: "Nothing to do", or the install command
\* in a dry run; a real run is unimplemented!().
Finish_mutant ==
    /\ pc = "loop"
    /\ to_resolve = <<>>
    /\ \E dry_run \in BOOLEAN :
         IF to_resolve = <<>>
         THEN /\ output' = Some(<<"Nothing to do">>)
              /\ pc' = "done"
         ELSE IF dry_run
         THEN /\ output' = Some(main_build_install_cmdline(to_install))
              /\ pc' = "done"
         ELSE /\ pc' = "panic_install"
              /\ UNCHANGED output
    /\ UNCHANGED <<sel, to_resolve, to_install, progress, host, show, dl, fs, idx, fn,
                   cl_args, depth>>

Finish ==
    /\ pc = "loop"
    /\ to_resolve = <<>>
    /\ \E dry_run \in BOOLEAN :
         IF to_install = <<>>
         THEN /\ output' = Some(<<"Nothing to do">>)
              /\ pc' = "done"
         ELSE IF dry_run
         THEN /\ output' = Some(main_build_install_cmdline(to_install))
              /\ pc' = "done"
         ELSE /\ pc' = "panic_install"
              /\ UNCHANGED output
    /\ UNCHANGED <<sel, to_resolve, to_install, progress, host, show, dl, fs, idx, fn,
                   cl_args, depth>>

Next == Iterate \/ GetDependencies \/ Finish

Spec == Init /\ [][Next]_vars

\* The places where main panics: line 390, get_dependencies, line 429.
Aborted == pc \in {"panic_unresolved", "panic_deps", "panic_install"}

(***************************************************************************)
(* DlSpec: download_package of apt.rs, called up to MaxCalls times for     *)
(* packages that carry the same URL.  A call may fail where the code       *)
(* returns an error, and the process may die at any point of a call; the   *)
(* files stay as they are and a later call belongs to a later run.         *)
(***************************************************************************)
MaxCalls == 3
\* The response body arrives in BodyLen chunks.
BodyLen == 2

\* The URL of the package, split at '/'.
DlUrl == <<"http:", "", "ftp.debian.org", "pool", "curl_7.50.0_amd64.deb">>

\* url.rsplit('/').next()
filename(url) == url[Len(url)]

filepath_final(url) == <<"cache_dir", filename(url)>>

filepath_tmp_mutant(url) == filepath_final(url)

\* cache_dir.join(format!("{}.tmp", filename))
filepath_tmp(url) == <<"cache_dir", filename(url), ".tmp">>

DlPaths == {filepath_final(DlUrl), filepath_tmp(DlUrl)}

\* Path::exists
exists_mutant(files, path) == FALSE

exists(files, path) == IsSome(files[path])

\* fs::rename: the file at from replaces the file at to.
rename(files, from, to) ==
    IF from = to THEN files
    ELSE [files EXCEPT ![to] = files[from], ![from] = None]

DlInit ==
    /\ sel = SelIdle /\ fn = FnIdle
    /\ MainIdle
    /\ idx = IdxIdle
    /\ dl = [pc |-> "idle", call |-> 0, dir_exists |-> FALSE, gets |-> 0,
             result |-> [c \in 1..MaxCalls |-> "none"],
             returned_at |-> [c \in 1..MaxCalls |-> "none"],
             filepath |-> [c \in 1..MaxCalls |-> None]]
    /\ fs = [p \in DlPaths |-> None]

\* The call returns; returned_at keeps the place it returned from.
DlReturn(status) ==
    [dl EXCEPT !.pc = "idle", !.result[dl.call] = status, !.returned_at[dl.call] = dl.pc]

\* A call starts for a package with url = DlUrl and no filepath.
DlCall ==
    /\ dl.pc = "idle"
    /\ dl.call < MaxCalls
    /\ dl' = [dl EXCEPT !.pc = "dirs", !.call = dl.call + 1]
    /\ UNCHANGED fs

\* Lines 191-194: ProjectDirs::from and create_dir_all; they can fail as
\* long as the directory does not exist.
DlDirs ==
    /\ dl.pc = "dirs"
    /\ \/ dl' = [dl EXCEPT !.pc = "check", !.dir_exists = TRUE]
       \/ /\ ~dl.dir_exists
          /\ dl' = DlReturn("err")
    /\ UNCHANGED fs

\* Line 204: filepath_final.exists()
DlCheck ==
    /\ dl.pc = "check"
    /\ dl' = [dl EXCEPT !.pc = IF exists(fs, filepath_final(DlUrl)) THEN "set" ELSE "get"]
    /\ UNCHANGED fs

\* Line 209: the GET is issued; a transport error or an error status
\* returns the error.
DlGet_mutant ==
    /\ dl.pc = "get"
    /\ \/ dl' = [dl EXCEPT !.pc = "create", !.gets = dl.gets + 1]
       \/ dl' = [dl EXCEPT !.pc = "set", !.gets = dl.gets + 1]
    /\ UNCHANGED fs

DlGet ==
    /\ dl.pc = "get"
    /\ \/ dl' = [dl EXCEPT !.pc = "create", !.gets = dl.gets + 1]
       \/ dl' = [DlReturn("err") EXCEPT !.gets = dl.gets + 1]
    /\ UNCHANGED fs

\* Line 211: File::create creates or truncates the temporary file.
DlCreate ==
    /\ dl.pc = "create"
    /\ \/ /\ dl' = [dl EXCEPT !.pc = "copy"]
          /\ fs' = [fs EXCEPT ![filepath_tmp(DlUrl)] = Some(0)]
       \/ /\ dl' = DlReturn("err")
          /\ UNCHANGED fs

\* Line 212: copy writes the body chunk by chunk, returns when the body is
\* complete, and returns the error of a failed read or write.
DlCopy ==
    /\ dl.pc = "copy"
    /\ LET n == Unwrap(fs[filepath_tmp(DlUrl)])
       IN  \/ /\ n < BodyLen
              /\ fs' = [fs EXCEPT ![filepath_tmp(DlUrl)] = Some(n + 1)]
              /\ UNCHANGED dl
           \/ /\ n = BodyLen
              /\ dl' = [dl EXCEPT !.pc = "rename"]
              /\ UNCHANGED fs
           \/ /\ n < BodyLen
              /\ dl' = DlReturn("err")
              /\ UNCHANGED fs

\* Lines 213-214: the file is closed and renamed to the final path.
DlRename ==
    /\ dl.pc = "rename"
    /\ \/ /\ dl' = [dl EXCEPT !.pc = "set"]
          /\ fs' = rename(fs, filepath_tmp(DlUrl), filepath_final(DlUrl))
       \/ /\ dl' = DlReturn("err")
          /\ UNCHANGED fs

\* Lines 218-226: package.filepath is set and the call returns Ok.
DlSetFilepath ==
    /\ dl.pc = "set"
    /\ dl' = [DlReturn("ok") EXCEPT !.filepath[dl.call] = Some(filepath_final(DlUrl))]
    /\ UNCHANGED fs

\* The process dies inside a call.
DlCrash ==
    /\ dl.pc \notin {"idle", "unused"}
    /\ dl' = DlReturn("crash")
    /\ UNCHANGED fs

DlNext ==
    /\ \/ DlCall \/ DlDirs \/ DlCheck \/ DlGet \/ DlCreate \/ DlCopy \/ DlRename
       \/ DlSetFilepath \/ DlCrash
    /\ UNCHANGED <<sel, mainVars, idx, fn>>

DlSpec == DlInit /\ [][DlNext]_vars

(***************************************************************************)
(* IdxSpec: get_remote_package_versions of apt.rs, called up to MaxLookups *)
(* times with the same html_cache.                                         *)
(***************************************************************************)
MaxLookups == 3

\* The pool directory that the download page of a package links to.
PoolDirOf ==
    [n \in {"curl", "libcurl4", "libasound2"} |->
        IF n = "libasound2" THEN "pool/main/a/alsa-lib/" ELSE "pool/main/c/curl/"]

IdxNames == DOMAIN PoolDirOf
IdxUrls == {PoolDirOf[n] : n \in IdxNames}

\* What a GET of a directory URL can return at different times.
IdxPages == {"listing1", "listing2"}

IdxInit ==
    /\ sel = SelIdle /\ fn = FnIdle
    /\ MainIdle
    /\ dl = DlIdle /\ fs = FsIdle
    /\ idx = [pc |-> "run", calls |-> 0,
              html_cache |-> [u \in IdxUrls |-> None],
              gets |-> [u \in IdxUrls |-> 0],
              served |-> [u \in IdxUrls |-> None],
              last |-> [name |-> "", status |-> "none", html |-> None, cached |-> FALSE]]

\* HashMap entry / insert, lines 549-562.
cache_insert_mutant(cache, url, html) == cache

cache_insert(cache, url, html) == [cache EXCEPT ![url] = Some(html)]

\* get_package_index_url fails (network, status, no pool link): the error
\* is returned before html_cache is looked at.
IdxLookupNoUrl ==
    /\ idx.pc = "run"
    /\ idx.calls < MaxLookups
    /\ \E n \in IdxNames :
         idx' = [idx EXCEPT !.calls = idx.calls + 1,
                            !.last = [name |-> n, status |-> "err", html |-> None,
                                      cached |-> FALSE]]

\* Entry::Occupied: the page comes from html_cache.
IdxLookupCached ==
    /\ idx.pc = "run"
    /\ idx.calls < MaxLookups
    /\ \E n \in IdxNames :
         /\ IsSome(idx.html_cache[PoolDirOf[n]])
         /\ idx' = [idx EXCEPT !.calls = idx.calls + 1,
                               !.last = [name |-> n, status |-> "ok",
                                         html |-> idx.html_cache[PoolDirOf[n]],
                                         cached |-> TRUE]]

\* Entry::Vacant: the page is fetched; it is inserted when the GET succeeds,
\* and the error is returned when it fails.
IdxLookupFetch ==
    /\ idx.pc = "run"
    /\ idx.calls < MaxLookups
    /\ \E n \in IdxNames :
         LET u == PoolDirOf[n]
         IN  /\ idx.html_cache[u] = None
             /\ \/ \E page \in IdxPages :
                     idx' = [idx EXCEPT !.calls = idx.calls + 1,
                                        !.gets[u] = idx.gets[u] + 1,
                                        !.served[u] = Some(page),
                                        !.html_cache = cache_insert(idx.html_cache, u, page),
                                        !.last = [name |-> n, status |-> "ok",
                                                  html |-> Some(page), cached |-> FALSE]]
                \/ idx' = [idx EXCEPT !.calls = idx.calls + 1,
                                      !.gets[u] = idx.gets[u] + 1,
                                      !.last = [name |-> n, status |-> "err",
                                                html |-> None, cached |-> FALSE]]

IdxNext ==
    /\ IdxLookupNoUrl \/ IdxLookupCached \/ IdxLookupFetch
    /\ UNCHANGED <<sel, mainVars, dl, fs, fn>>

IdxSpec == IdxInit /\ [][IdxNext]_vars

(***************************************************************************)
(* SelSpec: resolve_dependency applied to every input within the bounds.   *)
(***************************************************************************)
MaxCandidates == 2
MaxConstraints == 2

SeqsUpTo(S, n) == UNION {[1..k -> S] : k \in 0..n}

SelArch == "amd64"

SelPackages ==
    {CachePackage("p1", v, SelArch) : v \in Versions}
        \cup {RemotePackage("p1", v, SelArch) : v \in Versions}

\* get_dependencies gives an Any constraint the empty version string.
SelConstraints ==
    {PackageVersionConstaint("Any", VEmpty)}
        \cup {PackageVersionConstaint(r, v) : r \in Relations \ {"Any"}, v \in Versions}

SelDependencies ==
    {PackageDependency("p1", cs) : cs \in SeqsUpTo(SelConstraints, MaxConstraints) \ {<<>>}}

SelInstalled ==
    {None} \cup {Some(InstalledPackage("p1", v, SelArch, fv)) : v \in Versions, fv \in Versions}

SelInit ==
    /\ MainIdle /\ fn = FnIdle
    /\ dl = DlIdle /\ fs = FsIdle /\ idx = IdxIdle
    /\ \E d \in SelDependencies, cs \in SeqsUpTo(SelPackages, MaxCandidates), i \in SelInstalled :
        sel = [pc |-> "call", dependency |-> d, candidates |-> cs,
               installed_package |-> i, returned |-> None]

SelResolve ==
    /\ sel.pc = "call"
    /\ UNCHANGED <<mainVars, dl, fs, idx, fn>>
    /\ sel' = [sel EXCEPT !.pc = "ret",
                          !.returned = resolve_dependency(sel.dependency, sel.candidates,
                                                          sel.installed_package)]

SelNext == SelResolve

SelSpec == SelInit /\ [][SelNext]_vars

(***************************************************************************)
(* CmdSpec: build_install_cmdline of apt.rs and of main.rs, each applied   *)
(* to every list of packages within the bounds.                            *)
(***************************************************************************)
MaxPackages == 2

AptGetInstall == <<"apt-get", "install", "-V", "--no-install-recommends">>

\* apt.rs lines 605-618: filepath.as_ref().unwrap() panics on a package
\* that has no file path.
build_install_cmdline_mutant(packages) ==
    IF \E i \in 1..Len(packages) : packages[i].filepath = None
    THEN [status |-> "panic", cmd |-> <<>>]
    ELSE [status |-> "ok",
          cmd |-> AptGetInstall
                    \o [i \in 1..Len(packages) |->
                            Unwrap(packages[Len(packages) + 1 - i].filepath)]]

build_install_cmdline(packages) ==
    IF \E i \in 1..Len(packages) : packages[i].filepath = None
    THEN [status |-> "panic", cmd |-> <<>>]
    ELSE [status |-> "ok",
          cmd |-> AptGetInstall
                    \o [i \in 1..Len(packages) |-> Unwrap(packages[i].filepath)]]

\* A remote package after download_package has set its file path.
DownloadedPackage(name, version, arch) ==
    [RemotePackage(name, version, arch) EXCEPT
        !.filepath = Some(<<"user_cache_dir">> \o DebFileName(name, version, arch))]

\* The packages of test_build_install_cmdline (no architecture, a bare file
\* path), packages of the apt cache, a downloaded one and one not downloaded.
CmdPackages ==
    {Package("package1", V9, None, Some(<<"/p1">>), None),
     Package("package2", V10, None, Some(<<"/p2">>), None),
     CachePackage("p1", V9, "amd64"),
     CachePackage("p1", V10, "all"),
     DownloadedPackage("p2", V10, "amd64"),
     RemotePackage("p2", V9, "amd64")}

CmdInit ==
    /\ sel = SelIdle
    /\ MainIdle
    /\ dl = DlIdle /\ fs = FsIdle /\ idx = IdxIdle
    /\ \/ \E ps \in SeqsUpTo(CmdPackages, MaxPackages) :
            fn = [pc |-> "call", name |-> "apt::build_install_cmdline",
                  packages |-> ps, returned |-> None]
       \/ \E ps \in SeqsUpTo(WPackages, MaxPackages) :
            fn = [pc |-> "call", name |-> "main::build_install_cmdline",
                  packages |-> ps, returned |-> None]

BuildInstallCmdline ==
    /\ fn.pc = "call"
    /\ fn.name = "apt::build_install_cmdline"
    /\ fn' = [fn EXCEPT !.pc = "ret",
                        !.returned = Some(build_install_cmdline(fn.packages))]

MainBuildInstallCmdline ==
    /\ fn.pc = "call"
    /\ fn.name = "main::build_install_cmdline"
    /\ fn' = [fn EXCEPT !.pc = "ret",
                        !.returned = Some([status |-> "ok",
                                           cmd |-> main_build_install_cmdline(fn.packages)])]

CmdNext ==
    /\ BuildInstallCmdline \/ MainBuildInstallCmdline
    /\ UNCHANGED <<sel, mainVars, dl, fs, idx>>

CmdSpec == CmdInit /\ [][CmdNext]_vars

(***************************************************************************)
(* CandSpec: one call of main.rs resolve_version on a host whose apt cache *)
(* directory and whose remote pool are given.                              *)
(***************************************************************************)
\* What the remote source would answer for the package: the versions the
\* pool directory lists, or a failure (transport error, HTTP error status,
\* no pool link in the download page).
PoolStates ==
    [status : {"ok", "neterr", "httperr", "nolink"}, versions : SUBSET Versions]

\* resolve_version lines 246-247: the candidates are the versions of the
\* apt cache directory; the remote source is not asked ("TODO add remote
\* versions").
version_candidates_mutant(archives, pool) ==
    IF pool.status # "ok" THEN [status |-> "err", candidates |-> <<>>]
    ELSE [status |-> "ok",
          candidates |-> get_cache_package_versions(archives)
                            \o GlobOrder(pool.versions \ archives)]

version_candidates(archives, pool) ==
    [status |-> "ok", candidates |-> get_cache_package_versions(archives)]

CandDependencies ==
    {MainDependency("p1", VEmpty, "Any")}
        \cup {MainDependency("p1", v, r) : v \in {V9, V10}, r \in Relations \ {"Any"}}

CandInit ==
    /\ sel = SelIdle
    /\ MainIdle
    /\ dl = DlIdle /\ fs = FsIdle /\ idx = IdxIdle
    /\ \E archives \in SUBSET Versions, pool \in PoolStates, d \in CandDependencies,
          i \in {None, Some(V9), Some(V10)} :
            fn = [pc |-> "call", archives |-> archives, pool |-> pool, dependency |-> d,
                  installed_version |-> i, status |-> "none", candidates |-> <<>>,
                  returned |-> None]

ResolveVersion ==
    /\ fn.pc = "call"
    /\ LET c == version_candidates(fn.archives, fn.pool)
       IN  fn' = [fn EXCEPT !.pc = "ret",
                            !.status = c.status,
                            !.candidates = c.candidates,
                            !.returned =
                                IF c.status = "ok"
                                THEN resolve_version(fn.dependency, fn.installed_version,
                                                     c.candidates)
                                ELSE None]

CandNext ==
    /\ ResolveVersion
    /\ UNCHANGED <<sel, mainVars, dl, fs, idx>>

CandSpec == CandInit /\ [][CandNext]_vars

(***************************************************************************)
(* LsSpec: the parsing of a listing page by get_remote_package_versions    *)
(* (apt.rs lines 564-601), applied to every page of up to MaxLinks anchors. *)
(* The file names of a page are strings of characters.                     *)
(***************************************************************************)
MaxLinks == 2

\* str::starts_with, str::ends_with
starts_with(s, prefix) ==
    Len(s) >= Len(prefix) /\ SubSeq(s, 1, Len(prefix)) = prefix

ends_with(s, suffix) ==
    Len(s) >= Len(suffix) /\ SubSeq(s, Len(s) - Len(suffix) + 1, Len(s)) = suffix

\* Path::file_name: the last component of the path.
file_name(path) == SubSeq(path, LastIndex(path, "/", Len(path)) + 1, Len(path))

\* Path::file_stem: the file name up to its last '.', or all of it when it
\* has no '.' or only a leading one.
file_stem(path) ==
    LET n == file_name(path)
        i == LastIndex(n, ".", Len(n))
    IN  IF i <= 1 THEN n ELSE SubSeq(n, 1, i - 1)

\* str::rsplit: the pieces between the separators, the last piece first.
RECURSIVE rsplit(_, _)
rsplit(s, c) ==
    LET i == LastIndex(s, c, Len(s))
    IN  IF i = 0 THEN <<s>>
        ELSE <<SubSeq(s, i + 1, Len(s))>> \o rsplit(SubSeq(s, 1, i - 1), c)

ArchAmd64 == <<"a", "m", "d", "6", "4">>
ArchI386 == <<"i", "3", "8", "6">>
ArchAll == <<"a", "l", "l">>
ArchAny == <<"a", "n", "y">>
ExtDeb == <<".", "d", "e", "b">>
ExtDsc == <<".", "d", "s", "c">>

\* let arch_whitelist = [&apt_env.arch, "all", "any"];
arch_whitelist(arch) == {arch, ArchAll, ArchAny}

\* One round of the for loop, lines 568-599, for one anchor of the page:
\* "panic" (an unwrap fails), "skip" (filtered out or continue) or "push".
listed_package_mutant(package_name, arch, index_url, href) ==
    IF href = None THEN [status |-> "panic"]
    ELSE LET u == Unwrap(href)
             tokens == rsplit(file_stem(u), "_")
         IN  IF ~(starts_with(u, package_name \o <<"_">>) /\ ends_with(u, ExtDeb))
             THEN [status |-> "skip"]
             ELSE IF Len(tokens) < 2 THEN [status |-> "panic"]
             ELSE [status |-> "push",
                   package |-> Package(package_name, tokens[2], Some(tokens[1]), None,
                                       Some(<<index_url>> \o u))]

listed_package(package_name, arch, index_url, href) ==
    IF href = None THEN [status |-> "panic"]
    ELSE LET u == Unwrap(href)
             tokens == rsplit(file_stem(u), "_")
         IN  IF ~(starts_with(u, package_name \o <<"_">>) /\ ends_with(u, ExtDeb))
             THEN [status |-> "skip"]
             ELSE IF tokens[1] \notin arch_whitelist(arch) THEN [status |-> "skip"]
             ELSE IF Len(tokens) < 2 THEN [status |-> "panic"]
             ELSE [status |-> "push",
                   package |-> Package(package_name, tokens[2], Some(tokens[1]), None,
                                       Some(<<index_url>> \o u))]

\* The for loop over the anchors of the page: the packages pushed, or a
\* panic when a round panics.
RECURSIVE parse_listing(_, _, _, _)
parse_listing(package_name, arch, index_url, hrefs) ==
    IF hrefs = <<>> THEN [status |-> "ok", packages |-> <<>>]
    ELSE LET r == listed_package(package_name, arch, index_url, Head(hrefs))
             rest == parse_listing(package_name, arch, index_url, Tail(hrefs))
         IN  IF r.status = "panic" \/ rest.status = "panic"
             THEN [status |-> "panic", packages |-> <<>>]
             ELSE IF r.status = "push"
             THEN [status |-> "ok", packages |-> <<r.package>> \o rest.packages]
             ELSE rest

LsName == <<"c">>
LsIndexUrl == "http://ftp.debian.org/debian/pool/main/c/c/"

\* The href attributes a page may hold: files of the package for several
\* architectures, a source file, files of other packages, file names with
\* fewer fields, and an anchor without href.
LsHrefs ==
    {Some(LsName \o <<"_">> \o V9 \o <<"_">> \o ArchAmd64 \o ExtDeb),
     Some(LsName \o <<"_">> \o V10 \o <<"_">> \o ArchAll \o ExtDeb),
     Some(LsName \o <<"_">> \o V10 \o <<"_">> \o ArchAny \o ExtDeb),
     Some(LsName \o <<"_">> \o V9 \o <<"_">> \o ArchI386 \o ExtDeb),
     Some(LsName \o <<"_">> \o V9 \o ExtDsc),
     Some(LsName \o <<"d", "_">> \o V9 \o <<"_">> \o ArchAmd64 \o ExtDeb),
     Some(<<"d", "_">> \o V9 \o <<"_">> \o ArchAmd64 \o ExtDeb),
     Some(LsName \o <<"_">> \o ArchAmd64 \o ExtDeb),
     Some(LsName \o <<"_", "/">> \o ArchAmd64 \o ExtDeb),
     None}

LsInit ==
    /\ sel = SelIdle
    /\ MainIdle
    /\ dl = DlIdle /\ fs = FsIdle /\ idx = IdxIdle
    /\ \E hrefs \in SeqsUpTo(LsHrefs, MaxLinks) :
         fn = [pc |-> "call", package_name |-> LsName, arch |-> ArchAmd64,
               index_url |-> LsIndexUrl, hrefs |-> hrefs,
               status |-> "none", packages |-> <<>>]

ParseListing ==
    /\ fn.pc = "call"
    /\ LET r == parse_listing(fn.package_name, fn.arch, fn.index_url, fn.hrefs)
       IN  fn' = [fn EXCEPT !.pc = "ret", !.status = r.status, !.packages = r.packages]

LsNext ==
    /\ ParseListing
    /\ UNCHANGED <<sel, mainVars, dl, fs, idx>>

LsSpec == LsInit /\ [][LsNext]_vars

(***************************************************************************)
(* DepSpec: the parsing of the "Depends: " line by get_dependencies of     *)
(* apt.rs (lines 270-322) and by get_dependencies_cache of main.rs (lines  *)
(* 171-210), applied to every line of up to MaxClauses clauses.  The line  *)
(* is a string of characters, written out from the clauses it stands for.  *)
(***************************************************************************)
MaxClauses == 2

\* str::split: the pieces between the separators, the first piece first.
RECURSIVE split(_, _)
split(s, c) ==
    LET i == FirstIndex(s, c, 1)
    IN  IF i = 0 THEN <<s>>
        ELSE <<SubSeq(s, 1, i - 1)>> \o split(SubSeq(s, i + 1, Len(s)), c)

RECURSIVE trim_start(_)
trim_start(s) == IF s # <<>> /\ Head(s) = " " THEN trim_start(Tail(s)) ELSE s

RECURSIVE trim_end(_)
trim_end(s) ==
    IF s # <<>> /\ s[Len(s)] = " " THEN trim_end(SubSeq(s, 1, Len(s) - 1)) ELSE s

\* match &r[1..] { "<<" => .., r => panic!(..) }; the slice itself panics
\* on an empty token.
version_relation(r) ==
    IF r = <<>> THEN "panic"
    ELSE LET op == SubSeq(r, 2, Len(r))
         IN  CASE op = <<"<", "<">> -> "StrictlyInferior"
               [] op = <<"<", "=">> -> "InferiorOrEqual"
               [] op = <<"=">> -> "Equal"
               [] op = <<">", "=">> -> "SuperiorOrEqual"
               [] op = <<">", ">">> -> "StriclySuperior"
               [] OTHER -> "panic"

\* apt.rs lines 275-321, one clause of the line: the text before the first
\* '|' is split at ' ' into name, "(<relation>" and "<version>)".
package_dependency(package_desc) ==
    LET tokens == split(trim_end(split(package_desc, "|")[1]), " ")
        relation == IF Len(tokens) >= 2 THEN version_relation(tokens[2]) ELSE "Any"
    IN  IF relation = "panic" THEN [status |-> "panic"]
        ELSE IF relation = "Any"
        THEN [status |-> "ok",
              dep |-> PackageDependency(tokens[1], <<PackageVersionConstaint("Any", VEmpty)>>)]
        ELSE IF Len(tokens) < 3 THEN [status |-> "err"]
        ELSE IF tokens[3] = <<>> THEN [status |-> "panic"]
        ELSE [status |-> "ok",
              dep |-> PackageDependency(tokens[1],
                        <<PackageVersionConstaint(relation,
                            rsplit(SubSeq(tokens[3], 1, Len(tokens[3]) - 1), ":")[1])>>)]

\* main.rs lines 177-209, one clause of the line: the whole clause is split
\* at ' '.
main_package_dependency(package_desc) ==
    LET tokens == split(package_desc, " ")
        relation == IF Len(tokens) >= 2 THEN version_relation(tokens[2]) ELSE "Any"
    IN  IF relation = "panic" THEN [status |-> "panic"]
        ELSE IF relation = "Any"
        THEN [status |-> "ok", dep |-> MainDependency(tokens[1], VEmpty, "Any")]
        ELSE IF Len(tokens) < 3 \/ tokens[3] = <<>> THEN [status |-> "panic"]
        ELSE [status |-> "ok",
              dep |-> MainDependency(tokens[1], SubSeq(tokens[3], 1, Len(tokens[3]) - 1),
                                     relation)]

\* The for loop over split(',').map(trim_start): the dependencies pushed,
\* or the first error or panic.
RECURSIVE parse_clauses(_, _)
parse_clauses(descs, main_rs) ==
    IF descs = <<>> THEN [status |-> "ok", deps |-> <<>>]
    ELSE LET r == IF main_rs THEN main_package_dependency(trim_start(Head(descs)))
                  ELSE package_dependency(trim_start(Head(descs)))
         IN  IF r.status # "ok" THEN [status |-> r.status, deps |-> <<>>]
             ELSE LET rest == parse_clauses(Tail(descs), main_rs)
                  IN  IF rest.status # "ok" THEN rest
                      ELSE [status |-> "ok", deps |-> <<r.dep>> \o rest.deps]

LinePrefix == <<"D", "e", "p", "e", "n", "d", "s", ":", " ">>

\* package_desc_line.split_at(line_prefix.len()).1.split(',')
parse_depends(line, main_rs) ==
    parse_clauses(split(SubSeq(line, Len(LinePrefix) + 1, Len(line)), ","), main_rs)

\* How apt-cache show writes a relation, an alternative "name (rel version)",
\* a clause "alt | alt" and the line "Depends: clause, clause".
RelationText(relation) ==
    CASE relation = "StrictlyInferior" -> <<"<", "<">>
      [] relation = "InferiorOrEqual" -> <<"<", "=">>
      [] relation = "Equal" -> <<"=">>
      [] relation = "SuperiorOrEqual" -> <<">", "=">>
      [] relation = "StriclySuperior" -> <<">", ">">>

AlternativeText(a) ==
    IF a.relation = "Any" THEN a.name
    ELSE a.name \o <<" ", "(">> \o RelationText(a.relation) \o <<" ">> \o a.version \o <<")">>

RECURSIVE JoinText(_, _)
JoinText(texts, sep) ==
    IF texts = <<>> THEN <<>>
    ELSE IF Len(texts) = 1 THEN texts[1]
    ELSE texts[1] \o sep \o JoinText(Tail(texts), sep)

ClauseText(clause) ==
    JoinText([i \in 1..Len(clause) |-> AlternativeText(clause[i])], <<" ", "|", " ">>)

DependsLine(clauses) ==
    LinePrefix \o JoinText([i \in 1..Len(clauses) |-> ClauseText(clauses[i])], <<",", " ">>)

Alternative(name, relation, version) ==
    [name |-> name, relation |-> relation, version |-> version]

\* The clauses of the lines: one package with and without a version, and
\* clauses with a second alternative.
DepsClauses ==
    LET b == Alternative(<<"b">>, "Any", VEmpty)
        bGe == Alternative(<<"b">>, "SuperiorOrEqual", V10)
        bEq == Alternative(<<"b">>, "Equal", V9)
        c == Alternative(<<"c">>, "Any", VEmpty)
        cLt == Alternative(<<"c">>, "StrictlyInferior", V9)
    IN  {<<b>>, <<bGe>>, <<bEq>>, <<cLt>>, <<b, c>>, <<b, cLt>>, <<bGe, cLt>>}

DepsInit ==
    /\ sel = SelIdle
    /\ MainIdle
    /\ dl = DlIdle /\ fs = FsIdle /\ idx = IdxIdle
    /\ \E clauses \in SeqsUpTo(DepsClauses, MaxClauses) \ {<<>>}, main_rs \in BOOLEAN :
         fn = [pc |-> "call", main_rs |-> main_rs, clauses |-> clauses,
               line |-> DependsLine(clauses), status |-> "none", deps |-> <<>>]

ParseDepends ==
    /\ fn.pc = "call"
    /\ ~fn.main_rs
    /\ LET r == parse_depends(fn.line, FALSE)
       IN  fn' = [fn EXCEPT !.pc = "ret", !.status = r.status, !.deps = r.deps]

MainParseDepends ==
    /\ fn.pc = "call"
    /\ fn.main_rs
    /\ LET r == parse_depends(fn.line, TRUE)
       IN  fn' = [fn EXCEPT !.pc = "ret", !.status = r.status, !.deps = r.deps]

DepsNext ==
    /\ ParseDepends \/ MainParseDepends
    /\ UNCHANGED <<sel, mainVars, dl, fs, idx>>

DepSpec == DepsInit /\ [][DepsNext]_vars

(***************************************************************************)
(* ConcSpec: two resolvers, each in one call of download_package (apt.rs   *)
(* lines 204-215) for the same URL, their steps interleaved.  The cache    *)
(* directory maps a path to a file; a file holds the chunks of the body    *)
(* written to it, each at the offset of the writer; an open file stays a   *)
(* writer's file when its path is renamed or opened again.                 *)
(***************************************************************************)
Resolvers == {1, 2}

\* File::create: the file at the path is truncated if there is one, and a
\* new empty file is put at the path otherwise; id is the new file's id.
create(files, path, id) ==
    IF IsSome(files.names[path])
    THEN [files EXCEPT !.data[Unwrap(files.names[path])] = {}]
    ELSE [files EXCEPT !.names[path] = Some(id), !.data[id] = {}]

\* One write of copy: the chunk at the writer's offset goes into its file.
write(files, id, offset) == [files EXCEPT !.data[id] = files.data[id] \cup {offset + 1}]

ConcInit ==
    /\ sel = SelIdle /\ fn = FnIdle
    /\ MainIdle
    /\ idx = IdxIdle
    /\ dl = [r \in Resolvers |-> [pc |-> "check", fd |-> 0, offset |-> 0, result |-> "none"]]
    /\ fs = [names |-> [p \in DlPaths |-> None], data |-> [r \in Resolvers |-> {}]]

\* Line 204: filepath_final.exists()
ConcCheck(r) ==
    /\ dl[r].pc = "check"
    /\ dl' = [dl EXCEPT ![r].pc =
                IF exists(fs.names, filepath_final(DlUrl)) THEN "set" ELSE "get"]
    /\ UNCHANGED fs

\* Line 209: the GET succeeds or returns its error.
ConcGet(r) ==
    /\ dl[r].pc = "get"
    /\ \/ dl' = [dl EXCEPT ![r].pc = "create"]
       \/ dl' = [dl EXCEPT ![r].pc = "done", ![r].result = "err"]
    /\ UNCHANGED fs

\* Lines 210-211: File::create(&filepath_tmp)
ConcCreate(r) ==
    /\ dl[r].pc = "create"
    /\ fs' = create(fs, filepath_tmp(DlUrl), r)
    /\ dl' = [dl EXCEPT ![r].pc = "copy",
                        ![r].fd = Unwrap(fs'.names[filepath_tmp(DlUrl)]),
                        ![r].offset = 0]

\* Line 212: copy writes the next chunk, or has written the whole body.
ConcCopy(r) ==
    /\ dl[r].pc = "copy"
    /\ \/ /\ dl[r].offset < BodyLen
          /\ fs' = write(fs, dl[r].fd, dl[r].offset)
          /\ dl' = [dl EXCEPT ![r].offset = dl[r].offset + 1]
       \/ /\ dl[r].offset = BodyLen
          /\ dl' = [dl EXCEPT ![r].pc = "rename"]
          /\ UNCHANGED fs

\* Lines 213-214: fs::rename fails when there is no file at filepath_tmp.
ConcRename(r) ==
    /\ dl[r].pc = "rename"
    /\ IF exists(fs.names, filepath_tmp(DlUrl))
       THEN /\ fs' = [fs EXCEPT !.names = rename(fs.names, filepath_tmp(DlUrl),
                                                 filepath_final(DlUrl))]
            /\ dl' = [dl EXCEPT ![r].pc = "set"]
       ELSE /\ dl' = [dl EXCEPT ![r].pc = "done", ![r].result = "err"]
            /\ UNCHANGED fs

\* Lines 218-226: package.filepath is set and the call returns Ok.
ConcSetFilepath(r) ==
    /\ dl[r].pc = "set"
    /\ dl' = [dl EXCEPT ![r].pc = "done", ![r].result = "ok"]
    /\ UNCHANGED fs

ConcNext ==
    /\ \/ \E r \in Resolvers : ConcCheck(r)
       \/ \E r \in Resolvers : ConcGet(r)
       \/ \E r \in Resolvers : ConcCreate(r)
       \/ \E r \in Resolvers : ConcCopy(r)
       \/ \E r \in Resolvers : ConcRename(r)
       \/ \E r \in Resolvers : ConcSetFilepath(r)
    /\ UNCHANGED <<sel, mainVars, idx, fn>>

ConcSpec == ConcInit /\ [][ConcNext]_vars

(***************************************************************************)
(* What the specification means by "satisfies": every relation is decided  *)
(* by the version order.                                                   *)
(***************************************************************************)
Satisfies(version, constraint) ==
    LET c == compare_versions(version, constraint.version)
    IN  CASE constraint.version_relation = "Any" -> TRUE
          [] constraint.version_relation = "StrictlyInferior" -> c = 0 - 1
          [] constraint.version_relation = "InferiorOrEqual" -> c # 1
          [] constraint.version_relation = "Equal" -> c = 0
          [] constraint.version_relation = "SuperiorOrEqual" -> c # 0 - 1
          [] constraint.version_relation = "StriclySuperior" -> c = 1

SatisfiesAll(version, constraints) ==
    \A i \in 1..Len(constraints) : Satisfies(version, constraints[i])

\* Positions of the candidates that satisfy every constraint.
SatisfyingPositions(cands, dependency) ==
    {i \in 1..Len(cands) : SatisfiesAll(cands[i].version, dependency.version_constraints)}

Min(S) == CHOOSE x \in S : \A y \in S : x <= y

\* C2: whenever resolve_dependency returns a package, the version of that
\* package satisfies every constraint of the dependency.
C2_ReturnedSatisfiesAll ==
    (sel.pc = "ret" /\ IsSome(sel.returned))
        => SatisfiesAll(Unwrap(sel.returned).version, sel.dependency.version_constraints)

\* A call with two constraints of which a candidate satisfies only the
\* first, and which returned another candidate.
C2_Witness ==
    /\ sel.pc = "ret"
    /\ IsSome(sel.returned)
    /\ Len(sel.dependency.version_constraints) = 2
    /\ sel.dependency.version_constraints[1].version_relation = "SuperiorOrEqual"
    /\ sel.dependency.version_constraints[2].version_relation = "StrictlyInferior"
    /\ \E i \in 1..Len(sel.candidates) :
          /\ Satisfies(sel.candidates[i].version, sel.dependency.version_constraints[1])
          /\ ~Satisfies(sel.candidates[i].version, sel.dependency.version_constraints[2])

\* C3: if the installed package is among the candidates that satisfy every
\* constraint, resolve_dependency returns the installed package.
C3_InstalledPreferred ==
    (/\ sel.pc = "ret"
     /\ IsSome(sel.installed_package)
     /\ \E i \in SatisfyingPositions(sel.candidates, sel.dependency) :
            sel.candidates[i] = Unwrap(sel.installed_package))
        => sel.returned = sel.installed_package

\* C4: when no installed package is given or the installed package is not
\* among the satisfying candidates, resolve_dependency returns the first
\* satisfying candidate, and nothing exactly when no candidate satisfies.
C4_FirstSatisfying ==
    LET sat == SatisfyingPositions(sel.candidates, sel.dependency)
    IN  (/\ sel.pc = "ret"
         /\ \/ sel.installed_package = None
            \/ \A i \in sat : sel.candidates[i] # Unwrap(sel.installed_package))
            => /\ (sel.returned = None) <=> (sat = {})
               /\ sat # {} => sel.returned = Some(sel.candidates[Min(sat)])


(***************************************************************************)
(* The worklist loop.                                                      *)
(***************************************************************************)
\* The constraint a dependency of main.rs puts on its package.
DepConstraint(dependency) ==
    PackageVersionConstaint(dependency.version_relation, dependency.package.version)

\* The package of the dependency is installed on the host that answers h,
\* in a version that satisfies the dependency.
InstalledSatisfies(dependency, h) ==
    IsSome(h.installed) /\ Satisfies(Unwrap(h.installed), DepConstraint(dependency))

\* The cap on progress never stops the loop.
ProgressBelowCap == (pc = "loop" /\ to_resolve # <<>>) => progress < MaxProgress

\* C1: a step that dequeues a dependency whose package is installed in a
\* version satisfying the dependency adds nothing to to_install and does
\* not go on to push the dependencies of a package.
C1_InstalledUntouched ==
    [][(/\ pc = "loop"
        /\ to_resolve # <<>>
        /\ IsSome(host'[Head(to_resolve).package.name])
        /\ InstalledSatisfies(Head(to_resolve),
                              Unwrap(host'[Head(to_resolve).package.name])))
          => (to_install' = to_install /\ pc' # "deps")]_vars

\* C5: to_install never holds two equal entries.
C5_NoDuplicates ==
    \A i, j \in 1..Len(to_install) : to_install[i] = to_install[j] => i = j

\* The dependencies apt-cache show gave for the package of name n in
\* to_install (the empty sequence when there is none).
DepsShown(n) ==
    LET ps == {p \in Range(to_install) : p.name = n /\ IsSome(show[p])}
    IN  IF ps = {} THEN <<>> ELSE Unwrap(show[CHOOSE p \in ps : TRUE]).deps

DependsOnName(n, m) == \E i \in 1..Len(DepsShown(n)) : DepsShown(n)[i].package.name = m

\* A finished run over the diamond a -> b, a -> c, b -> d, c -> d in which
\* all four packages are installed and d was therefore resolved twice.
C5_Witness ==
    /\ pc = "done"
    /\ DependsOnName("a", "b") /\ DependsOnName("a", "c")
    /\ DependsOnName("b", "d") /\ DependsOnName("c", "d")
    /\ Cardinality({i \in 1..Len(to_install) : to_install[i].name = "d"}) = 1
    /\ Len(to_install) = 4

\* The longest dependency list a package can declare.
MaxDeps == CHOOSE m \in 0..Cardinality(WNames) :
              /\ \A n \in WNames : Len(DependsOn[n]) <= m
              /\ \E n \in WNames : Len(DependsOn[n]) = m

\* The work left: 0 once main has left the loop or panicked; otherwise the
\* queued dependencies plus the dependencies that the packages not yet in
\* to_install can still contribute.
Variant ==
    IF pc = "done" \/ Aborted THEN 0
    ELSE 1 + (MaxDeps + 1) * (Cardinality(WPackages) - Len(to_install))
           + Len(to_resolve)
           + (IF pc = "deps" THEN MaxDeps + 1 ELSE 0)

\* C6: the loop terminates: the queue becomes empty and main leaves the
\* loop, or the run aborts.  Every step of the run lowers Variant, which is
\* never negative, and as long as the run has neither finished nor aborted
\* a step is possible (the cap on progress is not reached).
C6_Terminates ==
    /\ [](Variant >= 0 /\ ProgressBelowCap)
    /\ [][Variant' < Variant]_vars

\* A finished run that went round the cycle a -> b -> d -> a.
C6_Witness ==
    /\ pc = "done"
    /\ DependsOnName("a", "b") /\ DependsOnName("b", "d") /\ DependsOnName("d", "a")
    /\ to_resolve = <<>>

\* C7: when resolve_version returns nothing for the dequeued dependency the
\* run aborts in that step; nothing is processed afterwards and nothing is
\* printed.
C7_UnresolvedAborts ==
    /\ [](pc = "panic_unresolved" => output = None)
    /\ [][/\ pc # "panic_unresolved"
          /\ (/\ pc = "loop"
              /\ to_resolve # <<>>
              /\ IsSome(host'[Head(to_resolve).package.name])
              /\ Resolved(Head(to_resolve),
                          Unwrap(host'[Head(to_resolve).package.name])) = None)
                => (/\ pc' = "panic_unresolved"
                    /\ to_install' = to_install
                    /\ output' = None)]_vars

\* A run that aborted on an unresolvable dependency after it had put
\* packages on to_install and with dependencies still queued.
C7_Witness ==
    /\ pc = "panic_unresolved"
    /\ to_install # <<>>
    /\ to_resolve # <<>>
    /\ output = None


(***************************************************************************)
(* The artifact cache.                                                     *)
(***************************************************************************)
\* C8: a GET is issued only when the final file does not exist; once the
\* first call has downloaded the file, one GET has been issued in all, no
\* call returns an error, and every call that returns Ok has set filepath
\* to the same final path.
C8_OneFetch ==
    /\ [](dl.pc # "unused" /\ dl.result[1] = "ok"
            => /\ dl.gets = 1
               /\ \A c \in 1..MaxCalls :
                    /\ dl.result[c] # "err"
                    /\ dl.result[c] = "ok" => dl.filepath[c] = Some(filepath_final(DlUrl)))
    /\ [][dl.pc # "unused" /\ dl'.gets # dl.gets
            => ~IsSome(fs[filepath_final(DlUrl)])]_vars

\* Two calls have returned Ok and one GET was issued.
C8_Witness ==
    /\ dl.pc = "idle"
    /\ dl.result[1] = "ok"
    /\ dl.result[2] = "ok"
    /\ dl.gets = 1

\* C9: a file at the final path holds the complete body.
C9_FinalIsComplete ==
    dl.pc # "unused"
        => (IsSome(fs[filepath_final(DlUrl)]) => Unwrap(fs[filepath_final(DlUrl)]) = BodyLen)

\* A call ended in the middle of the body: the temporary file is partial,
\* there is no final file, and the next call is at its existence check.
C9_Witness ==
    /\ dl.pc = "check"
    /\ dl.call > 1
    /\ dl.result[dl.call - 1] \in {"crash", "err"}
    /\ IsSome(fs[filepath_tmp(DlUrl)])
    /\ Unwrap(fs[filepath_tmp(DlUrl)]) \in 1..(BodyLen - 1)
    /\ ~IsSome(fs[filepath_final(DlUrl)])

C10_FetchedOnce ==
    [][idx.pc = "run" =>
        \A u \in IdxUrls :
            IsSome(idx.served[u]) =>
                /\ idx'.gets[u] = idx.gets[u]
                /\ idx'.served[u] = idx.served[u]
                /\ (idx'.calls # idx.calls /\ idx'.last.status = "ok"
                        /\ PoolDirOf[idx'.last.name] = u)
                     => (idx'.last.cached /\ idx'.last.html = idx.served[u])]_vars

\* After one GET of the curl directory, the second lookup, of libcurl4, took
\* the page from html_cache.
C10_Witness ==
    /\ idx.pc = "run"
    /\ idx.gets["pool/main/c/curl/"] = 1
    /\ IsSome(idx.served["pool/main/c/curl/"])
    /\ idx.last.name = "libcurl4"
    /\ idx.last.cached
    /\ idx.calls = 2

\* C11: build_install_cmdline returns apt-get install -V
\* --no-install-recommends followed by the file path of each package, one per
\* package and in the order of the list, and nothing else.  For apt.rs the
\* path is the package's filepath; for main.rs it is the path of the file
\* in /var/cache/apt/archives the version was listed from.
C11_Cmdline ==
    fn.pc = "ret"
        => LET r == Unwrap(fn.returned)
               n == Len(fn.packages)
               path(p) ==
                   IF fn.name = "apt::build_install_cmdline"
                   THEN IF p.filepath = None THEN None ELSE Unwrap(p.filepath)
                   ELSE <<"/var/cache/apt/archives/", p.name, "_", p.version, "_", "amd64", ".deb">>
           IN  (\A i \in 1..n : path(fn.packages[i]) # None)
                 => /\ r.status = "ok"
                    /\ Len(r.cmd) = 4 + n
                    /\ r.cmd[1] = "apt-get" /\ r.cmd[2] = "install"
                    /\ r.cmd[3] = "-V" /\ r.cmd[4] = "--no-install-recommends"
                    /\ \A i \in 1..n : r.cmd[4 + i] = path(fn.packages[i])

\* Two different packages with a file path went in and a command came out.
C11_Witness ==
    /\ fn.pc = "ret"
    /\ fn.name = "apt::build_install_cmdline"
    /\ Len(fn.packages) = 2
    /\ fn.packages[1] # fn.packages[2]
    /\ Unwrap(fn.returned).status = "ok"

\* C12: the candidates for a package hold every version that the local or
\* the remote listing has, each exactly once.
C12_MergedByVersion ==
    fn.pc = "ret" =>
        LET listed == fn.archives
                        \cup (IF fn.pool.status = "ok" THEN fn.pool.versions ELSE {})
        IN  /\ fn.status = "ok"
            /\ \A v \in listed :
                 Cardinality({i \in 1..Len(fn.candidates) : fn.candidates[i] = v}) = 1
            /\ \A i \in 1..Len(fn.candidates) : fn.candidates[i] \in listed

C14_SortedDescending ==
    fn.pc = "ret" =>
        LET constraint == PackageVersionConstaint(fn.dependency.version_relation,
                                                  fn.dependency.package.version)
        IN  /\ \A i, j \in 1..Len(fn.candidates) :
                 i < j => compare_versions(fn.candidates[i], fn.candidates[j]) >= 0
            /\ (IsSome(fn.returned) /\ fn.returned # fn.installed_version)
                 => \A v \in fn.archives :
                        Satisfies(v, constraint)
                            => compare_versions(Unwrap(fn.returned), v) >= 0

\* C15: for a dependency with the single constraint EQ v, a package is
\* returned exactly when some candidate's version compares equal to v, and
\* the version of the returned package compares equal to v.
C15_EqualByComparator ==
    (/\ sel.pc = "ret"
     /\ Len(sel.dependency.version_constraints) = 1
     /\ sel.dependency.version_constraints[1].version_relation = "Equal")
        => LET v == sel.dependency.version_constraints[1].version
           IN  /\ IsSome(sel.returned)
                    <=> \E i \in 1..Len(sel.candidates) :
                            compare_versions(sel.candidates[i].version, v) = 0
               /\ IsSome(sel.returned)
                    => compare_versions(Unwrap(sel.returned).version, v) = 0

\* C17: whenever a queried subprocess has failed, apt-cache policy for a
\* package name or apt-cache show for a package, the run has aborted.
C17_SubprocessFailureAborts ==
    /\ \A n \in WNames :
         (IsSome(host[n]) /\ ~Unwrap(host[n]).policy_ok) => Aborted
    /\ \A p \in WPackages :
         (IsSome(show[p]) /\ Unwrap(show[p]).status = "fail") => Aborted

\* C18: something is printed only once the loop has completed, and it is
\* not replaced afterwards; a completed run has printed "Nothing to do"
\* exactly when to_install is empty, and otherwise the one command line
\* with a path for every package of to_install, in order.
C18_OutputAtCompletion ==
    /\ [](IsSome(output) => (pc = "done" /\ to_resolve = <<>>))
    /\ [](pc = "done"
            => /\ IsSome(output)
               /\ (Unwrap(output) = <<"Nothing to do">>) <=> (to_install = <<>>)
               /\ to_install # <<>>
                    => /\ Len(Unwrap(output)) = 4 + Len(to_install)
                       /\ SubSeq(Unwrap(output), 1, 4)
                            = <<"apt-get", "install", "-V", "--no-install-recommends">>
                       /\ \A i \in 1..Len(to_install) :
                            /\ Unwrap(output)[4 + i][2] = to_install[i].name
                            /\ Unwrap(output)[4 + i][4] = to_install[i].version)
    /\ [][IsSome(output) => output' = output]_vars

\* A dry run that completed with two packages and printed the command.
C18_Witness ==
    /\ pc = "done"
    /\ Len(to_install) = 2
    /\ IsSome(output)
    /\ Len(Unwrap(output)) = 6

\* C20: for a package that is not installed (apt-cache policy succeeds and
\* shows no installed version) the probe returns None, and the step that
\* dequeues a dependency on it skips the dependency only when the resolved
\* package is already in to_install.
C20_NotInstalledIsNone ==
    [][(/\ pc = "loop"
        /\ to_resolve # <<>>
        /\ IsSome(host'[Head(to_resolve).package.name])
        /\ Unwrap(host'[Head(to_resolve).package.name]).policy_ok
        /\ Unwrap(host'[Head(to_resolve).package.name]).installed = None)
          => LET h == Unwrap(host'[Head(to_resolve).package.name])
                 r == Resolved(Head(to_resolve), h)
             IN  /\ get_installed_version(h) = None
                 /\ (pc' = "loop" /\ to_install' = to_install)
                      => (/\ IsSome(r)
                          /\ MainPackage(Head(to_resolve).package.name, Unwrap(r))
                                \in Range(to_install))]_vars

\* C19: every package the remote lister returns has the name asked for, the
\* configured architecture or "all" or "any", no file path, and as URL the
\* directory URL followed by a file name of the page that starts with
\* "<name>_" and ends with "_<arch>.deb" for the package's architecture.
C19_RemoteListerFilter ==
    (fn.pc = "ret" /\ fn.status = "ok") =>
        \A k \in 1..Len(fn.packages) :
            LET p == fn.packages[k]
            IN  /\ p.name = fn.package_name
                /\ p.arch \in {Some(fn.arch), Some(<<"a", "l", "l">>), Some(<<"a", "n", "y">>)}
                /\ p.filepath = None
                /\ \E j \in 1..Len(fn.hrefs) :
                     /\ fn.hrefs[j] # None
                     /\ LET u == Unwrap(fn.hrefs[j])
                            head == fn.package_name \o <<"_">>
                            tail == <<"_">> \o Unwrap(p.arch) \o <<".", "d", "e", "b">>
                        IN  /\ p.url = Some(<<fn.index_url>> \o u)
                            /\ Len(u) >= Len(head) + Len(tail) - 1
                            /\ SubSeq(u, 1, Len(head)) = head
                            /\ SubSeq(u, Len(u) - Len(tail) + 1, Len(u)) = tail

\* A page with a file of the package for amd64 and one for i386: the first
\* was returned, the second was not.
C19_Witness ==
    /\ fn.pc = "ret"
    /\ fn.status = "ok"
    /\ Len(fn.hrefs) = 2
    /\ Len(fn.packages) = 1
    /\ fn.packages[1].arch = Some(<<"a", "m", "d", "6", "4">>)
    /\ fn.packages[1].version = V9
    /\ \E j \in 1..2 :
         fn.hrefs[j] = Some(<<"c", "_", "9", "_", "i", "3", "8", "6", ".", "d", "e", "b">>)

\* C21: the extractor succeeds on every line and returns one dependency per
\* clause of the line, in the order of the clauses, each with the name, the
\* relation and the version of the first alternative of its clause.
C21_OnePerClause ==
    fn.pc = "ret" =>
        /\ fn.status = "ok"
        /\ Len(fn.deps) = Len(fn.clauses)
        /\ \A i \in 1..Len(fn.clauses) :
             LET a == fn.clauses[i][1]
                 d == fn.deps[i]
             IN  IF fn.main_rs
                 THEN /\ d.package.name = a.name
                      /\ d.version_relation = a.relation
                      /\ d.package.version = a.version
                 ELSE /\ d.package_name = a.name
                      /\ Len(d.version_constraints) = 1
                      /\ d.version_constraints[1].version_relation = a.relation
                      /\ d.version_constraints[1].version = a.version

\* The package of name n that main resolves on the host answering h equals
\* an entry of to_install.
ResolvedIsQueued(dependency, h) ==
    /\ IsSome(Resolved(dependency, h))
    /\ MainPackage(dependency.package.name, Unwrap(Resolved(dependency, h)))
            \in Range(to_install)

\* C22: a step that dequeues a dependency whose resolved package is already
\* in to_install leaves to_install as it is, enqueues nothing and does not
\* go on to extract dependencies; and dependencies are extracted only for a
\* package that the step before has newly added, so once per entry.
C22_DecidedSkipped ==
    /\ [][(/\ pc = "loop"
           /\ to_resolve # <<>>
           /\ IsSome(host'[Head(to_resolve).package.name])
           /\ ResolvedIsQueued(Head(to_resolve),
                               Unwrap(host'[Head(to_resolve).package.name])))
             => (/\ to_install' = to_install
                 /\ to_resolve' = Tail(to_resolve)
                 /\ show' = show
                 /\ pc' = "loop")]_vars
    /\ [][pc' = "deps"
             => (/\ Len(to_install') = Len(to_install) + 1
                 /\ to_install'[Len(to_install')] \notin Range(to_install)
                 /\ show'[to_install'[Len(to_install')]] = None)]_vars

\* Five dependencies were analysed on a host that has none of the packages
\* installed, and four packages were added: the second dependency on d was
\* skipped because d was in to_install.
C22_Witness ==
    /\ pc = "loop"
    /\ progress = 5
    /\ Len(to_install) = 4
    /\ to_install[4].name = "d"
    /\ \A n \in WNames : IsSome(host[n]) /\ ~Unwrap(host[n]).known
    /\ Len(to_resolve) = 1

\* C23: a step that dequeues a dependency whose resolved version is the
\* version installed on the host leaves to_install as it is, enqueues
\* nothing and extracts no dependencies; and no entry of to_install has the
\* name and the version of the package installed on the host.
C23_InstalledMatchSkipped ==
    /\ [][(/\ pc = "loop"
           /\ to_resolve # <<>>
           /\ IsSome(host'[Head(to_resolve).package.name])
           /\ IsSome(Unwrap(host'[Head(to_resolve).package.name]).installed)
           /\ Resolved(Head(to_resolve), Unwrap(host'[Head(to_resolve).package.name]))
                = Unwrap(host'[Head(to_resolve).package.name]).installed)
             => (/\ to_install' = to_install
                 /\ to_resolve' = Tail(to_resolve)
                 /\ show' = show
                 /\ pc' = "loop")]_vars
    /\ [](\A k \in 1..Len(to_install) :
            IsSome(host[to_install[k].name])
                => Unwrap(host[to_install[k].name]).installed # Some(to_install[k].version))

\* C24: the queue loses entries only at its front, one per step, and gains
\* entries only at its back; to_install only grows, at its end, by a package
\* of the name of the dependency dequeued in that step; and the entries of
\* to_install are in the order of their distance from the request: no entry
\* comes after an entry that is more dependency links away from it.
C24_FifoOrder ==
    /\ [][\/ to_resolve' = to_resolve
          \/ (to_resolve # <<>> /\ to_resolve' = Tail(to_resolve))
          \/ (/\ Len(to_resolve') > Len(to_resolve)
              /\ SubSeq(to_resolve', 1, Len(to_resolve)) = to_resolve)]_vars
    /\ [][\/ to_install' = to_install
          \/ (/\ to_resolve # <<>>
              /\ to_resolve' = Tail(to_resolve)
              /\ Len(to_install') = Len(to_install) + 1
              /\ SubSeq(to_install', 1, Len(to_install)) = to_install
              /\ to_install'[Len(to_install')].name = Head(to_resolve).package.name)]_vars
    /\ [](/\ Len(depth.i) = Len(to_install)
          /\ Len(depth.q) = Len(to_resolve)
          /\ \A j, k \in 1..Len(depth.i) : j < k => depth.i[j] <= depth.i[k]
          /\ \A j, k \in 1..Len(depth.q) : j < k => depth.q[j] <= depth.q[k])

\* A finished run that added a, then b and c one link away, then d two
\* links away.
C24_Witness ==
    /\ pc = "done"
    /\ depth.i = <<0, 1, 1, 2>>
    /\ to_install[2].name = "b" /\ to_install[3].name = "c"

\* The dependencies of package p have been extracted and put on the queue.
Enqueued(p) == p \in WPackages /\ IsSome(show[p]) /\ Unwrap(show[p]).status = "ok"

\* C25 as stated: in every state, the dependencies of every package of
\* to_install have been extracted and enqueued.
C25_AppendAfterDeps ==
    \A k \in 1..Len(to_install) : Enqueued(to_install[k])

\* C25: the accepting step appends the package to to_install, and its
\* dependencies are extracted and enqueued in the step after.  Between
\* iterations and after the loop every package of to_install has had its
\* dependencies enqueued; during the extraction, and after a failed one, the
\* last entry of to_install, and only that one, has not.
C25_DepsAfterAppend ==
    /\ [](pc \in {"loop", "done", "panic_unresolved", "panic_install"}
            => \A k \in 1..Len(to_install) : Enqueued(to_install[k]))
    /\ [](pc \in {"deps", "panic_deps"}
            => /\ to_install # <<>>
               /\ ~Enqueued(to_install[Len(to_install)])
               /\ \A k \in 1..(Len(to_install) - 1) : Enqueued(to_install[k]))
    /\ [][pc' = "deps"
            => /\ Len(to_install') = Len(to_install) + 1
               /\ to_resolve' = Tail(to_resolve)]_vars
    /\ [][(pc = "deps" /\ pc' = "loop")
            => /\ to_install' = to_install
               /\ to_resolve'
                    = to_resolve \o Unwrap(show'[to_install[Len(to_install)]]).deps]_vars

\* The extraction failed for the third package: the run has aborted and
\* to_install holds that package.
C25_Witness ==
    /\ pc = "panic_deps"
    /\ Len(to_install) = 3
    /\ IsSome(show[to_install[3]])
    /\ Unwrap(show[to_install[3]]).status = "fail"

\* C26: with two resolvers downloading the same URL, a file at the final
\* path holds the complete body in every state, and once both calls have
\* ended and one has returned Ok the final path holds the complete body.
C26_ConcurrentPublishSafe ==
    /\ IsSome(fs.names[filepath_final(DlUrl)])
         => fs.data[Unwrap(fs.names[filepath_final(DlUrl)])] = 1..BodyLen
    /\ ((\A r \in Resolvers : dl[r].pc = "done") /\ (\E r \in Resolvers : dl[r].result = "ok"))
         => /\ IsSome(fs.names[filepath_final(DlUrl)])
            /\ fs.data[Unwrap(fs.names[filepath_final(DlUrl)])] = 1..BodyLen

\* Two packages with the same name, version and architecture.
SameIdentity(p, q) == p.name = q.name /\ p.version = q.version /\ p.arch = q.arch

\* C27: when a candidate that passes every constraint has the name, version
\* and architecture of the installed package, whatever its file path and
\* URL, resolve_dependency returns the installed package.
C27_LocationInsensitive ==
    LET matching == matching_candidates(sel.candidates, sel.dependency.version_constraints)
    IN  (/\ sel.pc = "ret"
         /\ IsSome(sel.installed_package)
         /\ \E i \in 1..Len(matching) : SameIdentity(matching[i], Unwrap(sel.installed_package)))
            => sel.returned = sel.installed_package

\* The dependency is met by a package of to_install or by the package
\* installed on the host.
DependencyMet(dependency) ==
    \/ \E j \in 1..Len(to_install) :
          /\ to_install[j].name = dependency.package.name
          /\ Satisfies(to_install[j].version, DepConstraint(dependency))
    \/ /\ IsSome(host[dependency.package.name])
       /\ InstalledSatisfies(dependency, Unwrap(host[dependency.package.name]))

\* C28: when the loop has completed, every dependency extracted from a
\* package of to_install is met by a package of to_install or by the
\* package installed on the host.
C28_DependencyClosure ==
    pc = "done"
        => \A k \in 1..Len(to_install) :
              /\ IsSome(show[to_install[k]])
              /\ \A d \in 1..Len(Unwrap(show[to_install[k]]).deps) :
                    DependencyMet(Unwrap(show[to_install[k]]).deps[d])

\* C29: to_install never holds two packages of the same name.
C29_OnePerName ==
    \A j, k \in 1..Len(to_install) :
        to_install[j].name = to_install[k].name => j = k

\* C30: before the first iteration to_resolve holds exactly the dependency
\* (requested name, Equal, requested version) and to_install is empty, and
\* whenever to_install is not empty its first package is the requested
\* package at the requested version.
C30_SeededByRequest ==
    /\ (pc = "loop" /\ progress = 0)
          => /\ to_resolve = <<MainDependency(cl_args.package_name,
                                              cl_args.package_version, "Equal")>>
             /\ to_install = <<>>
    /\ to_install # <<>>
          => to_install[1] = MainPackage(cl_args.package_name, cl_args.package_version)

\* The request is for version 10 and two more packages have followed it.
C30_Witness ==
    /\ cl_args.package_version = V10
    /\ Len(to_install) = 3
    /\ pc = "done"

====
